---- MODULE Spec2Model ----
(***************************************************************************)
(* State-machine model of src/controller/abr-controller.js (AbrController): *)
(* the monitor timer, the abandon rules check run by the timer, the         *)
(* FRAG_LOADING / FRAG_LOADED / ERROR handlers, and the nextAutoLevel       *)
(* getter.  Times, byte counts and bitrates are JavaScript numbers in the   *)
(* source; the model computes with exact rationals <<n, d>> (d > 0, lowest  *)
(* terms) so that every comparison of the source is decided exactly.        *)
(***************************************************************************)
EXTENDS Integers, Sequences, FiniteSets, TLC

(***************************************************************************)
(* Bounds of the model.                                                     *)
(***************************************************************************)
\* the orchestrator starts at most MaxLoads loads of 'main' fragments
MaxLoads == 2

(***************************************************************************)
(* Exact rational arithmetic for the source's number expressions.           *)
(***************************************************************************)
Abs(x) == IF x < 0 THEN -x ELSE x

RECURSIVE GCD(_, _)
GCD(a, b) == IF b = 0 THEN a ELSE GCD(b, a % b)

\* n/d in lowest terms with a positive denominator (d # 0)
Rat(n, d) ==
  LET g == GCD(Abs(n), Abs(d))
      s == IF d < 0 THEN -1 ELSE 1
  IN  <<(s * n) \div g, (s * d) \div g>>

RInt(n) == <<n, 1>>

RMul(a, b) ==
  LET x == Rat(a[1], b[2])
      y == Rat(b[1], a[2])
  IN  <<x[1] * y[1], x[2] * y[2]>>

\* a / b for b # 0
RDiv(a, b) == RMul(a, Rat(b[2], b[1]))

RAdd(a, b) ==
  LET g == GCD(a[2], b[2])
  IN  Rat(a[1] * (b[2] \div g) + b[1] * (a[2] \div g), (a[2] \div g) * b[2])

RSub(a, b) == RAdd(a, <<-b[1], b[2]>>)

RLess(a, b) ==
  LET g == GCD(a[2], b[2])
  IN  a[1] * (b[2] \div g) < b[1] * (a[2] \div g)

RMax(a, b) == IF RLess(a, b) THEN b ELSE a

\* Math.round: the nearest integer, halves rounded up
RRound(a) == (2 * a[1] + a[2]) \div (2 * a[2])

Min(a, b) == IF a < b THEN a ELSE b
Max(a, b) == IF a > b THEN a ELSE b

(***************************************************************************)
(* The environment: the level ladder (hls.levels), the fragment objects of  *)
(* the orchestrator, the media element (hls.media) and the estimator.       *)
(***************************************************************************)
Level(b, l) == [bitrate |-> b, live |-> l]

\* hls.levels: no manifest yet (empty), or a three-level ladder
EmptyLadder == << >>
Ladder3 == <<Level(500000, FALSE), Level(1000000, TRUE), Level(2000000, FALSE)>>
Ladders == {EmptyLadder, Ladder3}

\* the 'main' fragment objects; fragments of another type carry no state
\* the controller reads
FragIds == {1, 2}

\* frag.duration (seconds) of each fragment object
FragDuration(f) == IF f = 1 THEN 6 ELSE 2

\* frag.autoLevel of each fragment object: fragment 1 is requested in auto
\* mode, fragment 2 at a level the user forced
FragAutoLevel(f) == f = 1

\* the values of frag.loaded (bytes received so far) a check may read
LoadedValues == {0, 200000, 440000, 800000}

\* stats.loaded of a finished load
TotalBytes == {800000}

\* the values getEstimate() returns (bits per second)
Estimates == {100000, 500000, 1500000, 4000000}

\* config.abrEwmaDefaultEstimate
DefaultEstimate == 500000

Media(att, p, rate, rs, pos, end) ==
  [attached |-> att, paused |-> p, playbackRate |-> rate, readyState |-> rs,
   currentTime |-> pos, bufferEnd |-> end]

\* snapshots of hls.media and its buffered range at the moment a tick or a
\* query reads them
MediaStates ==
  { Media(FALSE, TRUE, 1, 0, 0, 0),     \* no media attached
    Media(TRUE, FALSE, 1, 4, 10, 12),   \* playing, 2 s buffered
    Media(TRUE, FALSE, 1, 4, 10, 19),   \* playing, 9 s buffered
    Media(TRUE, FALSE, 1, 4, 10, 23),   \* playing, 13 s buffered
    Media(TRUE, FALSE, 1, 4, 10, 27),   \* playing, 17 s buffered
    Media(TRUE, TRUE, 1, 4, 10, 12),    \* paused with frames
    Media(TRUE, TRUE, 1, 0, 0, 0),      \* nothing loaded yet
    Media(TRUE, FALSE, 0, 4, 10, 12),   \* playback rate 0
    Media(TRUE, FALSE, -2, 4, 10, 12) } \* reverse double speed

\* BufferHelper.bufferInfo(v, pos, maxBufferHole).end
bufferInfoEnd(v) == IF v.attached THEN v.bufferEnd ELSE 0

\* a value returned by the getter, or the TypeError it threw
Ret(i) == [threw |-> FALSE, value |-> i]
Threw == [threw |-> TRUE, value |-> -1]

(***************************************************************************)
(* get nextAutoLevel(): the pure part.  lv is hls.levels, cap is            *)
(* _autoLevelCapping, forced is _nextAutoLevel, lastbw is the estimate, dur *)
(* is fragCurrent.duration, v is hls.media.                                 *)
(***************************************************************************)
\* as maxAutoLevel, never reading the cap
maxAutoLevelUncapped(cap, lv) == Len(lv) - 1

maxAutoLevel(cap, lv) == IF cap = -1 /\ Len(lv) > 0 THEN Len(lv) - 1 ELSE cap

\* playbackRate of the getter: |v.playbackRate|, or 1.0 when that is 0
queryPlaybackRate(v) ==
  IF v.attached /\ v.playbackRate # 0 THEN Abs(v.playbackRate) ELSE 1

\* bufferStarvationDelay of the getter
queryStarvationDelay(v) ==
  LET pos == IF v.attached THEN v.currentTime ELSE 0
  IN  Rat(bufferInfoEnd(v) - pos, queryPlaybackRate(v))

availableFetchTime(dur, v) ==
  RSub(queryStarvationDelay(v), Rat(2 * dur, queryPlaybackRate(v)))

\* fetchTime = bitrate * frag.duration / lastbw of level i (0-based)
fetchTime(lv, i, dur, lastbw) == Rat(lv[i + 1].bitrate * dur, lastbw)

\* first loop: the highest i <= from with fetchTime < availableFetchTime;
\* -1 when the loop ends without returning; -2 when levels[i] is undefined
RECURSIVE comfortableScan(_, _, _, _, _)
comfortableScan(lv, i, dur, lastbw, avail) ==
  IF i < 0 THEN -1
  ELSE IF i + 1 > Len(lv) THEN -2
  ELSE IF RLess(fetchTime(lv, i, dur, lastbw), avail) THEN i
  ELSE comfortableScan(lv, i - 1, dur, lastbw, avail)

\* second loop: the highest i <= from with
\* 0.5 * availableFetchTime + (frag.duration - fetchTime) > 0
RECURSIVE recoveryScan(_, _, _, _, _)
recoveryScan(lv, i, dur, lastbw, avail) ==
  IF i < 0 THEN -1
  ELSE IF i + 1 > Len(lv) THEN -2
  ELSE IF RLess(RInt(0),
                RAdd(RMul(Rat(1, 2), avail),
                     RSub(RInt(dur), fetchTime(lv, i, dur, lastbw)))) THEN i
  ELSE recoveryScan(lv, i - 1, dur, lastbw, avail)

\* the two scans and the last-resort return of the getter
scanLevels(lv, maxLevel, dur, lastbw, avail) ==
  LET c == IF RLess(RInt(0), avail)
             THEN comfortableScan(lv, maxLevel, dur, lastbw, avail)
             ELSE -1
      r == recoveryScan(lv, maxLevel, dur, lastbw, avail)
  IN  IF c = -2 THEN Threw
      ELSE IF c >= 0 THEN Ret(c)
      ELSE IF r = -2 THEN Threw
      ELSE IF r >= 0 THEN Ret(r)
      ELSE Ret(0)

\* the getter's result; built tells whether this.bwEstimator is set, lastbw
\* is its estimate, frag = 0 stands for an undefined fragCurrent
nextAutoLevel(lv, cap, forced, built, lastbw, frag, v) ==
  IF forced # -1 THEN Ret(Min(forced, maxAutoLevel(cap, lv)))
  ELSE IF ~built THEN Threw
  ELSE IF frag = 0 THEN Threw
  ELSE scanLevels(lv, maxAutoLevel(cap, lv), FragDuration(frag), lastbw,
                  availableFetchTime(FragDuration(frag), v))

(***************************************************************************)
(* abandonRulesCheck(): the pure part.  fr is the record of fragCurrent,    *)
(* dur its duration, t is performance.now(), b is frag.loaded, v is         *)
(* hls.media.                                                               *)
(***************************************************************************)
\* frag.loader is set: a loader was created and not detached by a load success
fragLoader(fr) == fr.phase \in {"loading", "aborted", "abandoned", "error"}

\* frag.loader.stats.aborted
loaderAborted(fr) == fr.phase \in {"aborted", "abandoned", "error"}

\* !frag.loader || (frag.loader.stats && frag.loader.stats.aborted)
loaderGone(fr) == ~fragLoader(fr) \/ loaderAborted(fr)

\* as monitored, without the test of the media being paused
monitoredPaused(fr, v) ==
  /\ v.attached
  /\ fr.autoLevel
  /\ fr.level # 0

\* (v not paused, rate # 0, or readyState 0) && frag.autoLevel && frag.level
monitored(fr, v) ==
  /\ v.attached
  /\ (~v.paused /\ v.playbackRate # 0) \/ v.readyState = 0
  /\ fr.autoLevel
  /\ fr.level # 0

requestDelay(fr, t) == t - fr.trequest

\* as pastHalfDuration, waiting for the whole fragment duration
pastWholeDuration(fr, dur, t, v) ==
  /\ v.playbackRate # 0
  /\ requestDelay(fr, t) * Abs(v.playbackRate) > 1000 * dur

\* requestDelay > 500 * frag.duration / playbackRate; the right side is
\* Infinity (or NaN) when playbackRate is 0, and the comparison false
pastHalfDuration(fr, dur, t, v) ==
  /\ v.playbackRate # 0
  /\ requestDelay(fr, t) * Abs(v.playbackRate) > 500 * dur

\* Math.max(1, frag.loaded * 1000 / requestDelay)
loadRate(fr, t, b) == RMax(RInt(1), Rat(b * 1000, requestDelay(fr, t)))

\* Math.max(frag.loaded, Math.round(frag.duration * bitrate / 8))
expectedLen(lv, fr, dur, b) ==
  Max(b, RRound(Rat(dur * lv[fr.level + 1].bitrate, 8)))

fragLoadedDelay(lv, fr, dur, t, b) ==
  RDiv(RInt(expectedLen(lv, fr, dur, b) - b), loadRate(fr, t, b))

\* (bufferInfo.end - pos) / playbackRate of the check
bufferStarvationDelay(v) ==
  Rat(bufferInfoEnd(v) - v.currentTime, Abs(v.playbackRate))

\* less than 2 fragments buffered and the load ends after the buffer does
starving(lv, fr, dur, t, b, v) ==
  /\ RLess(bufferStarvationDelay(v), Rat(2 * dur, Abs(v.playbackRate)))
  /\ RLess(bufferStarvationDelay(v), fragLoadedDelay(lv, fr, dur, t, b))

\* frag.duration * levels[l].bitrate / (8 * 0.8 * loadRate)
fragLevelNextLoadedDelay(lv, l, dur, rate) ==
  RDiv(RInt(dur * lv[l + 1].bitrate), RMul(RMul(RInt(8), Rat(4, 5)), rate))

\* the for loop: the value of nextLoadLevel when it ends (-1: no break)
RECURSIVE searchLevel(_, _, _, _, _)
searchLevel(lv, l, dur, rate, bsd) ==
  IF l < 0 THEN -1
  ELSE IF RLess(fragLevelNextLoadedDelay(lv, l, dur, rate), bsd) THEN l
  ELSE searchLevel(lv, l - 1, dur, rate, bsd)

\* as exitDelay, a delay that passes every comparison with fragLoadedDelay
exitDelayUncompared(lv, fr, dur, t, b, v) == RInt(-1)

\* the value of fragLevelNextLoadedDelay when the loop ends: that of the
\* level it broke at, or of level 0, the last one it computed
exitDelay(lv, fr, dur, t, b, v) ==
  LET l == searchLevel(lv, fr.level - 1, dur, loadRate(fr, t, b),
                       bufferStarvationDelay(v))
  IN  fragLevelNextLoadedDelay(lv, Max(0, l), dur, loadRate(fr, t, b))

\* as nextLoadLevel, always the lowest level
nextLoadLevelLowest(lv, fr, dur, t, b, v) == 0

\* Math.max(0, nextLoadLevel)
nextLoadLevel(lv, fr, dur, t, b, v) ==
  Max(0, searchLevel(lv, fr.level - 1, dur, loadRate(fr, t, b),
                     bufferStarvationDelay(v)))

\* what one run of the check does: "disarm", "abort" or "none"
checkOutcome(lv, fr, dur, t, b, v) ==
  IF loaderGone(fr) THEN "disarm"
  ELSE IF /\ monitored(fr, v)
          /\ pastHalfDuration(fr, dur, t, v)
          /\ starving(lv, fr, dur, t, b, v)
          /\ RLess(exitDelay(lv, fr, dur, t, b, v),
                   fragLoadedDelay(lv, fr, dur, t, b))
       THEN "abort"
  ELSE "none"

(***************************************************************************)
(* The state.                                                               *)
(***************************************************************************)
VARIABLES
  levels,               \* hls.levels
  frags,                \* the 'main' fragment objects, by id
  now,                  \* performance.now(), in ms
  intervals,            \* number of intervals the runtime has active
  timer,                \* this.timer: 0 (unset) or the interval's handle
  bwEstimator,          \* this.bwEstimator
  fragCurrent,          \* this.fragCurrent: 0 (undefined) or a fragment id
  lastLoadedFragLevel,  \* this.lastLoadedFragLevel
  _autoLevelCapping,    \* this._autoLevelCapping
  _nextAutoLevel,       \* this._nextAutoLevel
  destroyed,            \* destroy() has run: the handlers are unregistered
  lastOp                \* the operation that led to this state, what it read
                        \* and what it returned, sampled and triggered

vars == <<levels, frags, now, intervals, timer, bwEstimator, fragCurrent,
          lastLoadedFragLevel, _autoLevelCapping, _nextAutoLevel, destroyed,
          lastOp>>

\* the interval of setInterval(this.onCheck, 100), in ms
CheckInterval == 100

\* the instants at which performance.now() is read
Instants == {0, 10 * CheckInterval, 40 * CheckInterval}

\* the values the owner of the controller gives the two setters
AllCaps == -1 .. Len(Ladder3)
AllForced == -1 .. Len(Ladder3)
CapValues == {-1, 1}
ForcedValues == {-1, Len(Ladder3)}

ErrorDetails == {"fragLoadError", "fragLoadTimeOut", "other"}

NoMedia == Media(FALSE, TRUE, 1, 0, 0, 0)
NoSample == << >>

\* the calls a run of abandonRulesCheck makes on the estimator, the loader,
\* the timer and the event bus, in the order of the source: those of the
\* abort branch, of the disarm branch, and of a run that does neither
abandonCalls == <<"sample", "abort", "clearTimer", "trigger">>
disarmCalls == <<"clearTimer">>
checkCalls(name) ==
  IF name = "abort" THEN abandonCalls
  ELSE IF name = "disarm" THEN disarmCalls
  ELSE << >>

\* armed tells whether this.timer was set when the operation began
Op(name, f, v, e, res, smp, ev) ==
  [op |-> name, frag |-> f, armed |-> timer # 0, media |-> v, lastbw |-> e,
   result |-> res, sample |-> smp, event |-> ev, calls |-> checkCalls(name)]

\* the record of an operation that reads no media, returns nothing, feeds
\* no sample and triggers no event
Did(name, f) == Op(name, f, NoMedia, 0, Ret(-1), NoSample, 0)

NewFrag ==
  [level |-> 0, autoLevel |-> FALSE, trequest |-> 0, loadCounter |-> 0,
   phase |-> "new"]

NoEstimator == [built |-> FALSE, live |-> FALSE, sampled |-> FALSE]

\* constructor(hls)
Init ==
  /\ levels \in Ladders
  /\ frags = [f \in FragIds |-> NewFrag]
  /\ now = 0
  /\ intervals = 0
  /\ timer = 0
  /\ bwEstimator = NoEstimator
  /\ fragCurrent = 0
  /\ lastLoadedFragLevel = 0
  /\ _autoLevelCapping = -1
  /\ _nextAutoLevel = -1
  /\ destroyed = FALSE
  /\ lastOp = Did("constructor", 0)

(***************************************************************************)
(* The timer and the estimator.                                             *)
(***************************************************************************)
\* as armTimer, without the test of this.timer
armTimerUnguarded(tm, n) == <<1, n + 1>>

\* as clearTimer, clearing nothing
clearTimerSkipped(tm, n) == <<tm, n>>

\* as clearTimer, without the test of this.timer
clearTimerUnguarded(tm, n) == <<0, n - 1>>

\* if (!this.timer) this.timer = setInterval(this.onCheck, 100):
\* the pair <<this.timer, active intervals>> afterwards
armTimer(tm, n) == IF tm = 0 THEN <<1, n + 1>> ELSE <<tm, n>>

\* clearTimer(): the pair <<this.timer, active intervals>> afterwards
clearTimer(tm, n) == IF tm # 0 THEN <<0, n - 1>> ELSE <<tm, n>>

\* as lazyEstimator, without the test of this.bwEstimator
lazyEstimatorRebuilt(est, isLive) ==
  [built |-> TRUE, live |-> isLive, sampled |-> FALSE]

\* new EwmaBandWidthEstimator(hls, ewmaSlow, ewmaFast, default) unless built
lazyEstimator(est, isLive) ==
  IF ~est.built
    THEN [built |-> TRUE, live |-> isLive, sampled |-> FALSE]
    ELSE est

\* bwEstimator.sample(elapsed, bytes); a sample of non-positive duration is
\* dropped
sample(est, elapsed, bytes) ==
  IF elapsed > 0 THEN [est EXCEPT !.sampled = TRUE] ELSE est

\* bwEstimator.getEstimate(): the default estimate until a sample is
\* recorded, then the smoothed value e
getEstimate(est, e) == IF est.sampled THEN e ELSE DefaultEstimate

(***************************************************************************)
(* The handlers of the controller.                                          *)
(***************************************************************************)
\* as emergencyAborted, triggering no event
emergencyAbortedSilent(f) == 0

\* hls.trigger(Event.FRAG_LOAD_EMERGENCY_ABORTED, {frag: frag}): the
\* fragment the event carries
emergencyAborted(f) == f

\* as firstWholeLoad, whatever the load
firstWholeLoadAlways(fr) == TRUE

\* stats.aborted === undefined && frag.loadCounter === 1
firstWholeLoad(fr) ==
  /\ fr.phase \notin {"aborted", "abandoned"}
  /\ fr.loadCounter = 1

\* as forcedAfterLoaded, leaving the forced level in place
forcedKept == _nextAutoLevel

\* this._nextAutoLevel = -1 at the end of onFragLoaded
forcedAfterLoaded == -1

\* the number of loads of 'main' fragments started so far
loadsStarted == frags[1].loadCounter + frags[2].loadCounter

\* onFragLoading(data) for a fragment of type 'main': the orchestrator has
\* created the loader of fragment f at level lvl; a fragment object loaded
\* again keeps its level
onFragLoading(f, lvl) ==
  /\ ~destroyed
  /\ frags[f].phase # "loading"
  /\ loadsStarted < MaxLoads
  /\ lvl \in 0 .. Len(levels) - 1
  /\ frags[f].loadCounter > 0 => lvl = frags[f].level
  /\ timer' = armTimer(timer, intervals)[1]
  /\ intervals' = armTimer(timer, intervals)[2]
  /\ bwEstimator' = lazyEstimator(bwEstimator, levels[lvl + 1].live)
  /\ frags' = [frags EXCEPT ![f] =
                 [level |-> lvl, autoLevel |-> FragAutoLevel(f), trequest |-> now,
                  loadCounter |-> @.loadCounter + 1, phase |-> "loading"]]
  /\ fragCurrent' = f
  /\ lastOp' = Did("onFragLoading", f)
  /\ UNCHANGED <<levels, now, lastLoadedFragLevel, _autoLevelCapping,
                 _nextAutoLevel, destroyed>>

\* onFragLoading(data) for a fragment of another type
onFragLoadingOther ==
  /\ ~destroyed
  /\ lastOp' = Did("onFragLoadingOther", 0)
  /\ UNCHANGED <<levels, frags, now, intervals, timer, bwEstimator,
                 fragCurrent, lastLoadedFragLevel, _autoLevelCapping,
                 _nextAutoLevel, destroyed>>

\* abandonRulesCheck(), run by the interval; it reads media snapshot v and
\* b bytes in frag.loaded
abandonRulesCheck(v, b) ==
  LET fr == frags[fragCurrent]
      dur == FragDuration(fragCurrent)
      out == checkOutcome(levels, fr, dur, now, b, v)
  IN  /\ intervals > 0
      /\ fragCurrent # 0
      /\ IF out = "abort"
           THEN /\ _nextAutoLevel' = nextLoadLevel(levels, fr, dur, now, b, v)
                /\ bwEstimator' = sample(bwEstimator, requestDelay(fr, now), b)
                /\ frags' = [frags EXCEPT ![fragCurrent].phase = "abandoned"]
                /\ timer' = clearTimer(timer, intervals)[1]
                /\ intervals' = clearTimer(timer, intervals)[2]
                /\ lastOp' = Op("abort", fragCurrent, v, 0, Ret(-1),
                                <<requestDelay(fr, now), b>>,
                                emergencyAborted(fragCurrent))
           ELSE /\ timer' =
                     IF out = "disarm" THEN clearTimer(timer, intervals)[1]
                                       ELSE timer
                /\ intervals' =
                     IF out = "disarm" THEN clearTimer(timer, intervals)[2]
                                       ELSE intervals
                /\ lastOp' = Did(IF out = "disarm" THEN "disarm" ELSE "check",
                                 fragCurrent)
                /\ UNCHANGED <<_nextAutoLevel, bwEstimator, frags>>
      /\ UNCHANGED <<levels, now, fragCurrent, lastLoadedFragLevel,
                     _autoLevelCapping, destroyed>>

\* onFragLoaded(data) for 'main' fragment f with stats.loaded = b: its load
\* succeeded (the loader is detached), or the notification of a load that
\* was aborted arrives late, with stats.aborted set
onFragLoaded(f, b) ==
  LET fr == frags[f]
      statsAborted == fr.phase \in {"aborted", "abandoned"}
      fed == firstWholeLoad(fr)
  IN  /\ ~destroyed
      /\ fr.phase \in {"loading", "aborted", "abandoned"}
      /\ bwEstimator' =
           IF fed THEN sample(bwEstimator, now - fr.trequest, b)
                  ELSE bwEstimator
      /\ timer' = clearTimer(timer, intervals)[1]
      /\ intervals' = clearTimer(timer, intervals)[2]
      /\ lastLoadedFragLevel' = fr.level
      /\ _nextAutoLevel' = forcedAfterLoaded
      /\ frags' = [frags EXCEPT ![f].phase = "loaded"]
      /\ lastOp' = Op(IF statsAborted THEN "onFragLoadedLate"
                                      ELSE "onFragLoaded",
                      f, NoMedia, 0, Ret(-1),
                      IF fed THEN <<now - fr.trequest, b>> ELSE NoSample, 0)
      /\ UNCHANGED <<levels, now, fragCurrent, _autoLevelCapping, destroyed>>

\* onFragLoaded(data) for a fragment of another type
onFragLoadedOther ==
  /\ ~destroyed
  /\ lastOp' = Did("onFragLoadedOther", 0)
  /\ UNCHANGED <<levels, frags, now, intervals, timer, bwEstimator,
                 fragCurrent, lastLoadedFragLevel, _autoLevelCapping,
                 _nextAutoLevel, destroyed>>

\* onError(data): details d; f is the 'main' fragment whose load failed (its
\* loader is aborted), or 0 when the error is not about a 'main' fragment
onError(d, f) ==
  LET stop == d \in {"fragLoadError", "fragLoadTimeOut"}
  IN  /\ ~destroyed
      /\ f # 0 => stop /\ frags[f].phase = "loading"
      /\ timer' = IF stop THEN clearTimer(timer, intervals)[1] ELSE timer
      /\ intervals' =
           IF stop THEN clearTimer(timer, intervals)[2] ELSE intervals
      /\ frags' = IF f # 0 THEN [frags EXCEPT ![f].phase = "error"] ELSE frags
      /\ lastOp' = Did(d, f)
      /\ UNCHANGED <<levels, now, bwEstimator, fragCurrent,
                     lastLoadedFragLevel, _autoLevelCapping, _nextAutoLevel,
                     destroyed>>

\* destroy()
destroy ==
  /\ ~destroyed
  /\ timer' = clearTimer(timer, intervals)[1]
  /\ intervals' = clearTimer(timer, intervals)[2]
  /\ destroyed' = TRUE
  /\ lastOp' = Did("destroy", 0)
  /\ UNCHANGED <<levels, frags, now, bwEstimator, fragCurrent,
                 lastLoadedFragLevel, _autoLevelCapping, _nextAutoLevel>>

\* set autoLevelCapping(newLevel)
setAutoLevelCapping(c) ==
  /\ ~destroyed
  /\ _autoLevelCapping' = c
  /\ lastOp' = Did("setAutoLevelCapping", 0)
  /\ UNCHANGED <<levels, frags, now, intervals, timer, bwEstimator,
                 fragCurrent, lastLoadedFragLevel, _nextAutoLevel, destroyed>>

\* set nextAutoLevel(nextLevel)
setNextAutoLevel(l) ==
  /\ ~destroyed
  /\ _nextAutoLevel' = l
  /\ lastOp' = Did("setNextAutoLevel", 0)
  /\ UNCHANGED <<levels, frags, now, intervals, timer, bwEstimator,
                 fragCurrent, lastLoadedFragLevel, _autoLevelCapping,
                 destroyed>>

\* get nextAutoLevel(); past the forced return it reads media snapshot v and
\* the estimate, e once a sample is recorded
getNextAutoLevel(v, e) ==
  LET lastbw == getEstimate(bwEstimator, e)
      forced == _nextAutoLevel # -1
      res == nextAutoLevel(levels, _autoLevelCapping, _nextAutoLevel,
                           bwEstimator.built, lastbw, fragCurrent, v)
  IN  /\ ~destroyed
      /\ lastOp' =
           IF forced \/ ~bwEstimator.built
             THEN Op("getNextAutoLevel", fragCurrent, NoMedia, 0, res,
                     NoSample, 0)
             ELSE Op("getNextAutoLevel", fragCurrent, v, lastbw, res,
                     NoSample, 0)
      /\ UNCHANGED <<levels, frags, now, intervals, timer, bwEstimator,
                     fragCurrent, lastLoadedFragLevel, _autoLevelCapping,
                     _nextAutoLevel, destroyed>>

(***************************************************************************)
(* The environment of the controller.                                       *)
(***************************************************************************)
\* the orchestrator aborts the loader of fragment f (frag.loader.abort())
\* without notifying the controller
loaderAbort(f) ==
  /\ frags[f].phase = "loading"
  /\ frags' = [frags EXCEPT ![f].phase = "aborted"]
  /\ lastOp' = Did("loaderAbort", f)
  /\ UNCHANGED <<levels, now, intervals, timer, bwEstimator, fragCurrent,
                 lastLoadedFragLevel, _autoLevelCapping, _nextAutoLevel,
                 destroyed>>

\* performance.now() advances to instant t while a load is in flight
advance(t) ==
  /\ t > now
  /\ \E f \in FragIds : frags[f].phase = "loading"
  /\ now' = t
  /\ lastOp' = Did("advance", 0)
  /\ UNCHANGED <<levels, frags, intervals, timer, bwEstimator, fragCurrent,
                 lastLoadedFragLevel, _autoLevelCapping, _nextAutoLevel,
                 destroyed>>

\* the media snapshot and the estimate the queries of Spec read
QueryMedia == {Media(TRUE, FALSE, 1, 4, 10, 27)}
QueryEstimates == {DefaultEstimate, 1500000}

Next ==
  \/ \E f \in FragIds, lvl \in 0 .. 2 : onFragLoading(f, lvl)
  \/ onFragLoadingOther
  \/ \E v \in MediaStates, b \in LoadedValues : abandonRulesCheck(v, b)
  \/ \E f \in FragIds, b \in TotalBytes : onFragLoaded(f, b)
  \/ onFragLoadedOther
  \/ \E d \in ErrorDetails, f \in FragIds \cup {0} : onError(d, f)
  \/ destroy
  \/ \E c \in CapValues : setAutoLevelCapping(c)
  \/ \E l \in ForcedValues : setNextAutoLevel(l)
  \/ \E v \in QueryMedia, e \in QueryEstimates : getNextAutoLevel(v, e)
  \/ \E f \in FragIds : loaderAbort(f)
  \/ \E t \in Instants : advance(t)

Spec == Init /\ [][Next]_vars

\* one load at a time, and every value of the setters and of the inputs
\* of the getter
NextSelect ==
  \/ \E f \in FragIds :
       /\ \A g \in FragIds : frags[g].phase # "loading"
       /\ onFragLoading(f, 0)
  \/ \E f \in FragIds, b \in TotalBytes : onFragLoaded(f, b)
  \/ \E c \in AllCaps : setAutoLevelCapping(c)
  \/ \E l \in AllForced : setNextAutoLevel(l)
  \/ \E v \in MediaStates, e \in Estimates : getNextAutoLevel(v, e)
  \/ \E t \in Instants : advance(t)

SelectSpec == Init /\ [][NextSelect]_vars

(***************************************************************************)
(* The claims.                                                              *)
(***************************************************************************)
\* C1: in every reachable state the runtime holds zero or one active
\* interval of the controller, and this.timer is set exactly when it holds
\* one; an onFragLoading for a 'main' fragment that arrives while the timer
\* is set leaves that single interval in place.
C1_AtMostOneTimer ==
  /\ intervals \in {0, 1}
  /\ intervals = 1 <=> timer # 0

\* a second 'main' load has just started while the timer was set
C1_Witness ==
  /\ lastOp.op = "onFragLoading"
  /\ lastOp.armed
  /\ loadsStarted = 2
  /\ intervals = 1

\* C5: the timer is unset and no interval is active right after an
\* onFragLoaded for a 'main' fragment, an onError with details
\* FRAG_LOAD_ERROR or FRAG_LOAD_TIMEOUT, and a check that aborts the load.
C5_DisarmedAfter ==
  lastOp.op \in {"onFragLoaded", "onFragLoadedLate", "fragLoadError",
                 "fragLoadTimeOut", "abort"}
    => timer = 0 /\ intervals = 0

\* a check has just aborted the load it monitored
C5_Witness ==
  /\ lastOp.op = "abort"
  /\ lastOp.armed
  /\ timer = 0

\* C2: with the ladder, the cap, the fragment duration and the media
\* snapshot held fixed and no level forced, a larger estimate never makes
\* the getter return a lower level.
C2_MonotonicInEstimate ==
  (fragCurrent # 0 /\ bwEstimator.sampled /\ _nextAutoLevel = -1) =>
    \A v \in MediaStates, e1, e2 \in Estimates :
      LET r1 == nextAutoLevel(levels, _autoLevelCapping, _nextAutoLevel,
                              bwEstimator.built, e1, fragCurrent, v)
          r2 == nextAutoLevel(levels, _autoLevelCapping, _nextAutoLevel,
                              bwEstimator.built, e2, fragCurrent, v)
      IN  (e1 <= e2 /\ ~r1.threw /\ ~r2.threw) => r1.value <= r2.value

\* C3: an onFragLoaded for a fragment whose load the check has aborted
\* leaves the estimator, lastLoadedFragLevel and _nextAutoLevel as they
\* were.
C3_LateNotificationIgnored ==
  [][\A f \in FragIds :
       (frags[f].phase = "abandoned" /\ \E b \in TotalBytes : onFragLoaded(f, b))
         => UNCHANGED <<bwEstimator, lastLoadedFragLevel, _nextAutoLevel>>]_vars

\* C4: once a load has been aborted by the check, has failed or has
\* succeeded, fragCurrent no longer designates its fragment, and no query
\* that reads fragCurrent reads such a fragment.
C4_NoStaleReference ==
  LET ended(f) == frags[f].phase \in {"loaded", "error", "abandoned"}
  IN  /\ fragCurrent # 0 => ~ended(fragCurrent)
      /\ (lastOp.op = "getNextAutoLevel" /\ lastOp.lastbw # 0)
           => ~ended(lastOp.frag)

\* C6: the getter returns a level in every reachable state; it never
\* throws.
C6_QueryNeverFails ==
  lastOp.op = "getNextAutoLevel" => ~lastOp.result.threw

\* the media of Scenario C: playing at rate 1.0, buffer end 2 s ahead
ScenarioCMedia == Media(TRUE, FALSE, 1, 4, 10, 12)

\* fragment 1 (duration 6 s, auto mode) is in flight at level 2 of the
\* ladder [500k, 1000k, 2000k] and was requested ms milliseconds ago
ScenarioCRequest(ms) ==
  /\ levels = Ladder3
  /\ fragCurrent = 1
  /\ frags[1].phase = "loading"
  /\ frags[1].level = 2
  /\ frags[1].autoLevel
  /\ now - frags[1].trequest = ms

\* the check run on media v with b bytes loaded aborts the load of
\* fragment 1, forces level 0 or 1, and triggers the abort event with the
\* fragment, the delay of the forced level being less than fragLoadedDelay
ScenarioCAbandons(v, b) ==
  /\ lastOp'.op = "abort"
  /\ lastOp'.event = 1
  /\ frags'[1].phase = "abandoned"
  /\ _nextAutoLevel' \in {0, 1}
  /\ RLess(exitDelay(levels, frags[1], FragDuration(1), now, b, v),
           fragLoadedDelay(levels, frags[1], FragDuration(1), now, b))

\* C7 (as claimed): Scenario C with 1 s elapsed and 200000 bytes loaded
\* (loadRate 200000 B/s): the check abandons the load.
C7_ScenarioC ==
  [][(ScenarioCRequest(1000) /\ abandonRulesCheck(ScenarioCMedia, 200000))
       => ScenarioCAbandons(ScenarioCMedia, 200000)]_vars

\* C7 (amended): Scenario C with 4 s elapsed, more than half the fragment
\* duration, and 800000 bytes loaded (loadRate 200000 B/s): the check
\* abandons the load, forces level 0 or 1 and triggers the abort event with
\* the fragment, the delay of the forced level being less than that of the
\* aborted load.
C7_ScenarioCAfterHalfDuration ==
  [][(ScenarioCRequest(4000) /\ abandonRulesCheck(ScenarioCMedia, 800000))
       => ScenarioCAbandons(ScenarioCMedia, 800000)]_vars

\* the check of Scenario C, 4 s after the request, has aborted the load
C7_Witness ==
  /\ lastOp.op = "abort"
  /\ lastOp.frag = 1
  /\ lastOp.media = ScenarioCMedia
  /\ lastOp.sample = <<4000, 800000>>
  /\ lastOp.event = 1
  /\ levels = Ladder3
  /\ frags[1].level = 2
  /\ _nextAutoLevel = 0

\* the operations that handle a request-completed event
Completions == {"onFragLoaded", "onFragLoadedLate", "onFragLoadedOther"}

\* the completions of 'main' requests
MainCompletions == {"onFragLoaded", "onFragLoadedLate"}

\* a query made while a level is forced returns min(forced, maxAutoLevel)
ForcedQuery ==
  (lastOp.op = "getNextAutoLevel" /\ _nextAutoLevel # -1)
    => lastOp.result =
         Ret(Min(_nextAutoLevel, maxAutoLevel(_autoLevelCapping, levels)))

\* a query made while no level is forced, which reached the scans, returns
\* what the scans give for the estimate, fragment and media it read
EstimateDrivenQuery ==
  (lastOp.op = "getNextAutoLevel" /\ _nextAutoLevel = -1
     /\ lastOp.lastbw # 0)
    => lastOp.result =
         scanLevels(levels, maxAutoLevel(_autoLevelCapping, levels),
                    FragDuration(lastOp.frag), lastOp.lastbw,
                    availableFetchTime(FragDuration(lastOp.frag),
                                       lastOp.media))

\* C8 (as claimed): while a level is forced every query returns
\* min(forced, maxAutoLevel); every request-completed event resets the
\* forced level to none; queries with no forced level are estimate-driven.
C8_OneShotPerCompletion ==
  /\ ForcedQuery
  /\ lastOp.op \in Completions => _nextAutoLevel = -1
  /\ EstimateDrivenQuery

\* C8 (amended): while a level is forced every query returns
\* min(forced, maxAutoLevel); the forced level changes only by a
\* request-completed event of a 'main' request, the setter or an
\* abandonment, so a completion of another request leaves it in place; a
\* completion of a 'main' request resets it to none; queries with no forced
\* level are estimate-driven.
C8_OneShotPerMainCompletion ==
  /\ [](/\ ForcedQuery
        /\ lastOp.op \in MainCompletions => _nextAutoLevel = -1
        /\ EstimateDrivenQuery)
  /\ [][_nextAutoLevel' # _nextAutoLevel
          => lastOp'.op \in MainCompletions \cup {"setNextAutoLevel", "abort"}
       ]_vars

\* the load of fragment 1 was abandoned, which forced a level, and the
\* completion of fragment 2 has reset the forced level
C8_Witness ==
  /\ lastOp.op = "onFragLoaded"
  /\ lastOp.frag = 2
  /\ frags[1].phase = "abandoned"
  /\ frags[2].phase = "loaded"
  /\ _nextAutoLevel = -1

\* C9: with a cap c >= 0 set, a query that returns never returns an index
\* greater than c, whatever the estimate, the media and the forced level.
C9_NeverAboveCap ==
  (lastOp.op = "getNextAutoLevel" /\ _autoLevelCapping >= 0
     /\ ~lastOp.result.threw)
    => lastOp.result.value <= _autoLevelCapping

\* a query under cap 1 with an estimate that fits level 2 has returned 1
C9_Witness ==
  /\ lastOp.op = "getNextAutoLevel"
  /\ _autoLevelCapping = 1
  /\ _nextAutoLevel = -1
  /\ lastOp.lastbw = 4000000
  /\ lastOp.frag = 1
  /\ lastOp.media = Media(TRUE, FALSE, 1, 4, 10, 27)
  /\ lastOp.result = Ret(1)

\* C10: a query with no forced level, availableFetchTime > 0 and a level i
\* in 0..maxAutoLevel with fetchTime(i) < availableFetchTime returns the
\* highest such i.
C10_ComfortableHighest ==
  (lastOp.op = "getNextAutoLevel" /\ _nextAutoLevel = -1
     /\ lastOp.lastbw # 0)
    => LET dur   == FragDuration(lastOp.frag)
           avail == availableFetchTime(dur, lastOp.media)
           top   == Min(maxAutoLevel(_autoLevelCapping, levels),
                        Len(levels) - 1)
           fits  == {i \in 0 .. top :
                       RLess(fetchTime(levels, i, dur, lastOp.lastbw), avail)}
       IN  (RLess(RInt(0), avail) /\ fits # {})
             => lastOp.result = Ret(CHOOSE i \in fits : \A j \in fits : j <= i)

\* C11: a query with no forced level whose comfortable scan yields no level
\* (availableFetchTime <= 0, or no level in 0..maxAutoLevel fits) returns
\* the highest i in 0..maxAutoLevel with
\* 0.5 * availableFetchTime + (duration - fetchTime(i)) > 0, and returns 0,
\* never an error, when no level passes.
C11_RecoveryAndFallback ==
  (lastOp.op = "getNextAutoLevel" /\ _nextAutoLevel = -1
     /\ lastOp.lastbw # 0)
    => LET dur   == FragDuration(lastOp.frag)
           avail == availableFetchTime(dur, lastOp.media)
           top   == Min(maxAutoLevel(_autoLevelCapping, levels),
                        Len(levels) - 1)
           fits  == {i \in 0 .. top :
                       RLess(fetchTime(levels, i, dur, lastOp.lastbw), avail)}
           gains == {i \in 0 .. top :
                       RLess(RInt(0),
                             RAdd(RMul(Rat(1, 2), avail),
                                  RSub(RInt(dur),
                                       fetchTime(levels, i, dur,
                                                 lastOp.lastbw))))}
       IN  (~RLess(RInt(0), avail) \/ fits = {})
             => lastOp.result =
                  IF gains = {} THEN Ret(0)
                  ELSE Ret(CHOOSE i \in gains : \A j \in gains : j <= i)

\* C12: the estimator is constructed exactly once, by the first
\* onFragLoading of a 'main' fragment, with the smoothing constants of that
\* fragment's level (live or not); once constructed it is never constructed
\* again and its constants never change, whatever the levels of the later
\* 'main' fragments.
C12_EstimatorBuiltOnce ==
  /\ [](bwEstimator.built <=> loadsStarted > 0)
  /\ [][/\ bwEstimator.built
             => /\ bwEstimator'.built
                /\ bwEstimator'.live = bwEstimator.live
        /\ (~bwEstimator.built /\ bwEstimator'.built)
             => /\ lastOp'.op = "onFragLoading"
                /\ loadsStarted = 0
                /\ bwEstimator'.live =
                     levels[frags'[lastOp'.frag].level + 1].live
       ]_vars

\* a second 'main' fragment, of a level that is not live, has started
\* loading and the estimator keeps the live constants of the first
C12_Witness ==
  /\ lastOp.op = "onFragLoading"
  /\ loadsStarted = 2
  /\ bwEstimator.built
  /\ bwEstimator.live
  /\ ~levels[frags[lastOp.frag].level + 1].live

\* the fields of the controller
fields ==
  <<timer, intervals, bwEstimator, fragCurrent, lastLoadedFragLevel,
    _autoLevelCapping, _nextAutoLevel>>

\* the operations that call clearTimer() whatever the state
Disarmers ==
  {"onFragLoaded", "onFragLoadedLate", "fragLoadError", "fragLoadTimeOut",
   "destroy"}

\* C13: clearTimer() on a controller whose timer is unset changes nothing,
\* and clearTimer() twice equals clearTimer() once; an operation that
\* disarms (completion, load error, load timeout, destroy), run while the
\* timer is unset, leaves the timer unset and the intervals as they were,
\* and a load error, a load timeout or destroy then changes no field.
C13_DisarmIdempotent ==
  /\ [](LET once == clearTimer(timer, intervals)
        IN  /\ clearTimer(once[1], once[2]) = once
            /\ timer = 0 => once = <<timer, intervals>>)
  /\ [][timer = 0
          => /\ lastOp'.op \in Disarmers
                  => timer' = 0 /\ intervals' = intervals
             /\ lastOp'.op \in {"fragLoadError", "fragLoadTimeOut", "destroy"}
                  => UNCHANGED fields
       ]_vars

\* the abort of a load disarmed the timer, and a load timeout has disarmed
\* it again
C13_Witness ==
  /\ lastOp.op = "fragLoadTimeOut"
  /\ ~lastOp.armed
  /\ \E f \in FragIds : frags[f].phase = "abandoned"
  /\ timer = 0
  /\ intervals = 0

\* the records a run of abandonRulesCheck leaves in lastOp
Ticks == {"abort", "disarm", "check"}

\* C14: a check aborts the load of fragCurrent only if the load is still in
\* flight, the media is playing (not paused, rate # 0) or has no frame yet
\* (readyState 0), the fragment was requested in auto mode, its level is
\* > 0 and the time since the request exceeds
\* 500 ms * frag.duration / |playbackRate|; a check on a fragment whose load
\* is no longer in flight only disarms the timer.
C14_AbortOnlyIfPreconditions ==
  [][/\ lastOp'.op = "abort"
          => LET fr == frags[fragCurrent]
                 v  == lastOp'.media
             IN  /\ lastOp'.frag = fragCurrent
                 /\ fr.phase = "loading"
                 /\ v.attached
                 /\ (~v.paused /\ v.playbackRate # 0) \/ v.readyState = 0
                 /\ fr.autoLevel
                 /\ fr.level > 0
                 /\ v.playbackRate # 0
                 /\ (now - fr.trequest) * Abs(v.playbackRate)
                      > 500 * FragDuration(fragCurrent)
     /\ (lastOp'.op \in Ticks /\ frags[fragCurrent].phase # "loading")
          => /\ lastOp'.op = "disarm"
             /\ timer' = 0
             /\ intervals' = 0
             /\ UNCHANGED <<frags, bwEstimator, fragCurrent,
                            lastLoadedFragLevel, _autoLevelCapping,
                            _nextAutoLevel>>
    ]_vars

\* a check has aborted a load while the media was paused with no frame yet
C14_Witness ==
  /\ lastOp.op = "abort"
  /\ lastOp.media.paused
  /\ lastOp.media.readyState = 0
  /\ frags[lastOp.frag].phase = "abandoned"
  /\ frags[lastOp.frag].level > 0

\* C15: whenever a check aborts the load, the level it forces is lower than
\* the level of the aborted fragment, and the delay of the forced level,
\* frag.duration * bitrate / (8 * 0.8 * loadRate), is less than the
\* fragLoadedDelay of the aborted load, also when the loop found no level
\* and the forced level is the 0 that Math.max(0, -1) gives.
C15_SwitchIsImprovement ==
  [][lastOp'.op = "abort"
       => LET fr   == frags[fragCurrent]
              dur  == FragDuration(fragCurrent)
              b    == lastOp'.sample[2]
              rate == loadRate(fr, now, b)
          IN  /\ _nextAutoLevel' \in 0 .. fr.level - 1
              /\ RLess(fragLevelNextLoadedDelay(levels, _nextAutoLevel', dur,
                                                rate),
                       fragLoadedDelay(levels, fr, dur, now, b))
    ]_vars

\* a check has aborted a load whose loop found no level below the buffer
\* starvation delay, and forced level 0
C15_Witness ==
  /\ lastOp.op = "abort"
  /\ _nextAutoLevel = 0
  /\ frags[lastOp.frag].level = 2
  /\ LET dur  == FragDuration(lastOp.frag)
         rate == RMax(RInt(1), Rat(lastOp.sample[2] * 1000, lastOp.sample[1]))
     IN  searchLevel(levels, 1, dur, rate,
                     bufferStarvationDelay(lastOp.media)) = -1

\* C16: whenever a check aborts the load of a fragment of level L, the level
\* it forces is the highest i in 0..L-1 whose delay
\* frag.duration * bitrate(i) / (8 * 0.8 * loadRate) is less than the buffer
\* starvation delay, or 0 when there is none; it is never negative and
\* never >= L.
C16_ForcedLevelIsHighestSafe ==
  [][lastOp'.op = "abort"
       => LET fr   == frags[fragCurrent]
              dur  == FragDuration(fragCurrent)
              v    == lastOp'.media
              rate == loadRate(fr, now, lastOp'.sample[2])
              bsd  == Rat(bufferInfoEnd(v) - v.currentTime,
                          Abs(v.playbackRate))
              safe == {i \in 0 .. fr.level - 1 :
                         RLess(fragLevelNextLoadedDelay(levels, i, dur, rate),
                               bsd)}
          IN  /\ _nextAutoLevel' =
                   IF safe = {} THEN 0
                   ELSE CHOOSE i \in safe : \A j \in safe : j <= i
              /\ _nextAutoLevel' >= 0
              /\ _nextAutoLevel' < fr.level
    ]_vars

\* a check has aborted the load of a fragment of level 2 and forced level
\* 1, whose delay is below the buffer starvation delay
C16_Witness ==
  /\ lastOp.op = "abort"
  /\ frags[lastOp.frag].level = 2
  /\ _nextAutoLevel = 1
  /\ lastOp.sample = <<4000, 440000>>

\* the effects of a run of abandonRulesCheck on fragCurrent: a sample fed
\* to the estimator, the load cancelled, the timer disarmed, the abort
\* event triggered
TickSampled == lastOp'.sample # NoSample
TickCancelled ==
  frags[fragCurrent].phase = "loading"
    /\ frags'[fragCurrent].phase = "abandoned"
TickDisarmed == timer # 0 /\ timer' = 0 /\ intervals' = 0
TickEmitted == lastOp'.event # 0

\* all four effects, with the sample (elapsed time, bytes loaded) fed once
\* and before the cancel, the cancel before the disarm, the one event last
\* and carrying fragCurrent
TickAbandoned ==
  /\ TickSampled /\ TickCancelled /\ TickDisarmed /\ TickEmitted
  /\ \E b \in LoadedValues :
       lastOp'.sample = <<now - frags[fragCurrent].trequest, b>>
  /\ bwEstimator'.sampled
  /\ lastOp'.event = fragCurrent
  /\ lastOp'.calls = <<"sample", "abort", "clearTimer", "trigger">>

\* C17 (as claimed): every abort is one step with the four effects in
\* order, and no run of the check has one of the four effects without the
\* others.
C17_AbandonAllOrNothing ==
  [][lastOp'.op \in Ticks
       => /\ lastOp'.op = "abort" => TickAbandoned
          /\ (TickSampled \/ TickCancelled \/ TickDisarmed \/ TickEmitted)
               => TickAbandoned
    ]_vars

\* C17 (amended): every abort is one step with the four effects in order;
\* no run of the check feeds a sample, cancels the load or triggers the
\* event without all four; a run that disarms the timer without the others
\* is a run on a fragment whose load is no longer in flight.
C17_AbandonAtomic ==
  [][lastOp'.op \in Ticks
       => /\ lastOp'.op = "abort" => TickAbandoned
          /\ (TickSampled \/ TickCancelled \/ TickEmitted) => TickAbandoned
          /\ (TickDisarmed /\ ~TickAbandoned)
               => /\ frags[fragCurrent].phase # "loading"
                  /\ lastOp'.calls = <<"clearTimer">>
    ]_vars

\* a check has aborted the load of fragment 1 after 3 s with 440000 bytes
\* loaded: the sample is fed, the load cancelled, the timer disarmed and
\* the event triggered with the fragment
C17_Witness ==
  /\ lastOp.op = "abort"
  /\ lastOp.armed
  /\ lastOp.sample = <<3000, 440000>>
  /\ bwEstimator.sampled
  /\ frags[1].phase = "abandoned"
  /\ timer = 0
  /\ lastOp.event = 1

\* C18: onFragLoaded for a 'main' fragment feeds the estimator a sample
\* (time since the request, stats.loaded) if and only if the fragment's
\* loadCounter is 1 and the load was not aborted; in either case it sets
\* lastLoadedFragLevel to the fragment's level and resets the forced level;
\* onFragLoaded for a fragment of another type changes no field.
C18_CompletionFeedback ==
  [][/\ lastOp'.op \in MainCompletions
          => LET fr == frags[lastOp'.frag]
             IN  /\ lastOp'.sample # NoSample
                      <=> (fr.loadCounter = 1 /\ fr.phase = "loading")
                 /\ lastOp'.sample # NoSample
                      => /\ \E b \in TotalBytes :
                              lastOp'.sample = <<now - fr.trequest, b>>
                         /\ now > fr.trequest => bwEstimator'.sampled
                 /\ lastOp'.sample = NoSample => bwEstimator' = bwEstimator
                 /\ lastLoadedFragLevel' = fr.level
                 /\ _nextAutoLevel' = -1
     /\ lastOp'.op = "onFragLoadedOther" => UNCHANGED fields
    ]_vars

\* the second load of a fragment has completed: no sample is fed, the level
\* is recorded and the forced level reset
C18_Witness ==
  /\ lastOp.op = "onFragLoaded"
  /\ frags[lastOp.frag].loadCounter = 2
  /\ frags[lastOp.frag].level > 0
  /\ lastOp.sample = NoSample
  /\ lastLoadedFragLevel = frags[lastOp.frag].level
  /\ _nextAutoLevel = -1

\* C19: while the 'main' fragment whose load started last is still in
\* flight (not loaded, not failed, not aborted), the timer is armed, also
\* after a notification about a fragment whose load started earlier.
C19_InFlightIsMonitored ==
  (~destroyed /\ fragCurrent # 0 /\ frags[fragCurrent].phase = "loading")
    => timer # 0 /\ intervals = 1

\* C20: whatever the values given to the two setters, a query that takes
\* the forced return or reaches the scans returns a valid index of
\* hls.levels, in 0..levels.length-1, and never fails on a level read
\* outside hls.levels.
C20_ResultIsValidIndex ==
  (lastOp.op = "getNextAutoLevel"
     /\ (_nextAutoLevel # -1 \/ lastOp.lastbw # 0))
    => /\ ~lastOp.result.threw
       /\ lastOp.result.value \in 0 .. Len(levels) - 1

====
